---- MODULE Spec2Model ----
(***************************************************************************)
(* Real-time inventory alert function (src/main.py).                       *)
(*                                                                         *)
(* The module import loads the stock ledger STOCK_LEVELS from the          *)
(* knowledge base; every Pub/Sub message then triggers one invocation of   *)
(* process_sale_event, which decodes the payload, decrements the ledger,   *)
(* evaluates the low-stock and high-value rules and sends one Telegram     *)
(* message per alert.                                                      *)
(*                                                                         *)
(* Conventions.  A value that may be missing (a key of the JSON payload,   *)
(* an environment variable, Python's None) is a sequence: <<>> when        *)
(* missing, <<v>> when present.  Money is in cents (the payloads carry     *)
(* two-decimal amounts, for which the float comparison against the         *)
(* threshold is exact).                                                    *)
(***************************************************************************)
EXTENDS Integers, Sequences, FiniteSets, TLC

VARIABLES
    phase,          \* "import" | "ready" | "triggered" | "returned"
    kbFile,         \* knowledge_base/products.json as found at import
    STOCK_LEVELS,   \* the ledger: product id -> stock
    env,            \* TELEGRAM_BOT_TOKEN / TELEGRAM_CHAT_ID
    event,          \* the Pub/Sub event of the current invocation
    pre,            \* STOCK_LEVELS when the invocation started
    alerts,         \* the alerts list of the invocation
    calls,          \* requests.post calls of the invocation, in order
    log,            \* what the invocation printed, in order
    result,         \* "none" | "returned" | "raised"
    nEvents,        \* invocations so far
    sales,          \* the ledger writes so far: <<product id, quantity,
                    \* whether the invocation appended a LOW_STOCK alert>>
    pool,           \* handler invocations running as threads of one instance
    reorder,        \* the reorder calculator: database, call and answer
    redelivery,     \* what the first delivery of a redelivered message did
    publisher,      \* run_publisher of src/publisher.py: arguments and locals
    catalogDb,      \* the products table of src/inventory_db.py and its imports
    bot             \* polling_active, the listener threads and the Bot API

vars == <<phase, kbFile, STOCK_LEVELS, env, event, pre, alerts, calls, log,
          result, nEvents, sales, pool, reorder, redelivery, publisher,
          catalogDb, bot>>

----------------------------------------------------------------------------
(* Bounds *)

MaxEvents == 2

----------------------------------------------------------------------------
(* Optional values and dictionaries *)

None == <<>>

Some(v) == <<v>>

\* dict.get(key, default) on an optional field
Get(f, d) == IF f = None THEN d ELSE f[1]

\* key in dict
Has(levels, id) == id \in DOMAIN levels

----------------------------------------------------------------------------
(* Module constants *)

HIGH_VALUE_THRESHOLD == 12000

LOW_STOCK_THRESHOLD == 5

DefaultStockLevels ==
    [id \in {"SKU001", "SKU002", "SKU003", "SKU004", "SKU005"} |->
        CASE id = "SKU001" -> 50
          [] id = "SKU002" -> 30
          [] id = "SKU003" -> 20
          [] id = "SKU004" -> 15
          [] id = "SKU005" -> 10]

----------------------------------------------------------------------------
(* load_stock_levels *)

\* {p["id"]: p.get("stock", 0) for p in products}: a later entry of the
\* same id replaces an earlier one.
RECURSIVE NewLevels(_)
NewLevels(products) ==
    IF products = <<>> THEN <<>>
    ELSE LET n == Len(products)
             p == products[n]
             rest == NewLevels(SubSeq(products, 1, n - 1))
             id == p.id[1]
         IN [k \in DOMAIN rest \cup {id} |->
                IF k = id THEN Get(p.stock, 0) ELSE rest[k]]

\* The comprehension raises KeyError when a product has no "id".
ComprehensionRaises(products) ==
    \E i \in 1..Len(products) : products[i].id = None

LoadedLevels(file) ==
    IF file.state = "parsed" /\ ~ComprehensionRaises(file.products)
       /\ file.products # <<>>
    THEN NewLevels(file.products)
    ELSE DefaultStockLevels

KbFiles ==
    { [state |-> "missing", products |-> <<>>],
      [state |-> "unparseable", products |-> <<>>],
      [state |-> "parsed", products |-> <<>>],
      [state |-> "parsed",
       products |-> << [id |-> Some("SKU005"), stock |-> Some(7)],
                       [id |-> Some("SKU001"), stock |-> None] >>],
      [state |-> "parsed",
       products |-> << [id |-> Some("UNKNOWN"), stock |-> Some(6)],
                       [id |-> None, stock |-> Some(3)] >>],
      [state |-> "parsed",
       products |-> << [id |-> Some("UNKNOWN"), stock |-> Some(9)],
                       [id |-> Some("UNKNOWN"), stock |-> Some(6)] >>] }

----------------------------------------------------------------------------
(* The inbound Pub/Sub event *)

\* Payloads the transport can hand over: event["data"] missing or not
\* base64, bytes that are not UTF-8, text that is not JSON, JSON that is
\* not an object (null, a list, a number), and JSON objects.
UndecodableKinds == {"no_data_key", "bad_base64", "bad_utf8", "bad_json"}

ProductIdVals == {None, Some("SKU005"), Some("SKU999")}

QuantityVals == {None, Some(2), Some(5)}

TotalVals == {None, Some(12000), Some(29998)}

PriceVals == {None, Some(14999)}

Payloads ==
    [transaction_id : {None, Some("TEST-001")},
     product_id     : ProductIdVals,
     product_name   : {None, Some("Winter Jacket")},
     quantity       : QuantityVals,
     price          : PriceVals,
     total          : TotalVals,
     store_id       : {None, Some("Berlin_01")},
     category       : {Some("Jacket")},
     timestamp      : {Some("2026-01-01T00:00:00")}]

EmptyPayload ==
    [transaction_id |-> None, product_id |-> None, product_name |-> None,
     quantity |-> None, price |-> None, total |-> None, store_id |-> None,
     category |-> None, timestamp |-> None]

Events ==
    {[kind |-> k, data |-> EmptyPayload] :
        k \in UndecodableKinds \cup {"json_nonobject"}}
    \cup {[kind |-> "json_object", data |-> d] : d \in Payloads}

NoEvent == [kind |-> "none", data |-> EmptyPayload]

\* Variant: the except clause names json.JSONDecodeError only.
DecodeFails_JsonOnly(ev) == ev.kind = "bad_json"

\* base64.b64decode(event["data"]).decode("utf-8"), json.loads: any
\* exception of the three is caught by the handler's except clause.
DecodeFails(ev) == ev.kind \in UndecodableKinds

----------------------------------------------------------------------------
(* process_sale_event: extraction of the sale details *)

ProductId(d) == Get(d.product_id, "UNKNOWN")

ProductName(d) == Get(d.product_name, ProductId(d))

Quantity(d) == Get(d.quantity, 1)

\* Variant: no fallback to the price.
Total_NoPriceFallback(d) == Get(d.total, 0)

Total(d) == Get(d.total, Get(d.price, 0))

StoreId(d) == Get(d.store_id, "UNKNOWN")

Category(d) == Get(d.category, "UNKNOWN")

Timestamp(d) == Get(d.timestamp, "NOW")

----------------------------------------------------------------------------
(* process_sale_event: ledger update and alert rules *)

\* Variant: the stock is floored at zero.
ApplySale_ClampAtZero(levels, id, q) ==
    [levels EXCEPT ![id] = IF @ - q < 0 THEN 0 ELSE @ - q]

\* Variant: a sale larger than the stock is not applied.
ApplySale_SkipsOversell(levels, id, q) ==
    [levels EXCEPT ![id] = IF q > @ THEN @ ELSE @ - q]

\* Variant: the sale is charged to every product of the ledger.
ApplySale_AllProducts(levels, id, q) == [k \in DOMAIN levels |-> levels[k] - q]

\* Variant: a product that sells out is restocked to 50 units.
ApplySale_RestocksWhenSoldOut(levels, id, q) ==
    [levels EXCEPT ![id] = IF @ - q <= 0 THEN 50 ELSE @ - q]

\* Variant: the decrement ignores the event's quantity.
ApplySale_UnitDecrement(levels, id, q) == [levels EXCEPT ![id] = @ - 1]

\* STOCK_LEVELS[product_id] -= quantity
ApplySale(levels, id, q) == [levels EXCEPT ![id] = @ - q]

\* Variant: an untracked id gets an entry (defaultdict-style ledger).
LevelsAfter_CreatesEntry(levels, d) ==
    IF Has(levels, ProductId(d))
    THEN ApplySale(levels, ProductId(d), Quantity(d))
    ELSE [k \in DOMAIN levels \cup {ProductId(d)} |->
            IF k = ProductId(d) THEN 0 - Quantity(d) ELSE levels[k]]

LevelsAfter(levels, d) ==
    IF Has(levels, ProductId(d))
    THEN ApplySale(levels, ProductId(d), Quantity(d))
    ELSE levels

\* Variant: strict comparison.
LowStockFires_Strict(current_stock) == current_stock < LOW_STOCK_THRESHOLD

LowStockFires(current_stock) == current_stock <= LOW_STOCK_THRESHOLD

\* Variant: non-strict comparison.
HighValueFires_NonStrict(total) == total >= HIGH_VALUE_THRESHOLD

HighValueFires(total) == total > HIGH_VALUE_THRESHOLD

\* Variant: the amount is printed without its cents.
FormatAmount_WholeDollars(total) == <<"$", total \div 100, 0>>

\* f"${total:.2f}" of an amount in cents: dollars and two-digit cents
FormatAmount(total) == <<"$", total \div 100, total % 100>>

LowStockAlert(d, current_stock) ==
    [type    |-> "LOW_STOCK",
     title   |-> "Low Stock Alert!",
     details |-> << <<"Product", ProductName(d)>>,
                    <<"Remaining", current_stock>>,
                    <<"Last Sale", StoreId(d)>> >>]

HighValueAlert(d) ==
    [type    |-> "HIGH_VALUE",
     title   |-> "High-Value Sale Detected!",
     details |-> << <<"Amount", FormatAmount(Total(d))>>,
                    <<"Product", ProductName(d)>>,
                    <<"Store", StoreId(d)>>,
                    <<"Category", Category(d)>> >>]

\* Step 3 of the handler: the alerts appended for the stock rule.  The
\* stock read is the ledger entry after the decrement.
StockAlerts(levels, d) ==
    IF Has(levels, ProductId(d))
       /\ LowStockFires(LevelsAfter(levels, d)[ProductId(d)])
    THEN << LowStockAlert(d, LevelsAfter(levels, d)[ProductId(d)]) >>
    ELSE <<>>

\* Step 4 of the handler
ValueAlerts(d) ==
    IF HighValueFires(Total(d)) THEN << HighValueAlert(d) >> ELSE <<>>

\* Variant: the value rule is evaluated first.
ComputeAlerts_ValueFirst(levels, d) == ValueAlerts(d) \o StockAlerts(levels, d)

ComputeAlerts(levels, d) == StockAlerts(levels, d) \o ValueAlerts(d)

\* The handler's prints for the alerts it appended
AlertLog(as) ==
    [i \in 1..Len(as) |->
        IF as[i].type = "LOW_STOCK"
        THEN <<"LOW STOCK", as[i].details[1][2], as[i].details[2][2]>>
        ELSE <<"HIGH VALUE", as[i].details[1][2], as[i].details[3][2]>>]

----------------------------------------------------------------------------
(* send_alerts and send_telegram_message *)

\* What requests.post(url, json=payload, timeout=5) followed by
\* raise_for_status() can do: a 2xx answer, a non-2xx answer (HTTPError),
\* a ConnectionError, a Timeout.  The last three are RequestExceptions.
Outcomes == {"ok", "http_error", "connection_error", "timeout"}

Envs ==
    [TELEGRAM_BOT_TOKEN : {None, Some(""), Some("123:ABC")},
     TELEGRAM_CHAT_ID   : {None, Some("42")}]

\* Variant: the test is "is not None".
Truthy_NotNone(f) == f # None

\* Python truthiness of os.environ.get(name)
Truthy(f) == f # None /\ f # Some("")

CredentialsConfigured(environment) ==
    Truthy(environment.TELEGRAM_BOT_TOKEN)
    /\ Truthy(environment.TELEGRAM_CHAT_ID)

\* "\n".join(message_lines)
Message(alert, timestamp) ==
    << alert.title, "" >> \o alert.details \o << "", timestamp >>

\* Variant: the except clause misses requests.exceptions.Timeout.
Caught_NoTimeout(outcome) == outcome \in {"http_error", "connection_error"}

\* The except clause of send_telegram_message catches RequestException.
Caught(outcome) ==
    outcome \in {"http_error", "connection_error", "timeout"}

\* Variant: a failed post is attempted a second time.
SendTelegramMessage_Retry(token, chat_id, message, outcome) ==
    LET call == [token |-> token, chat_id |-> chat_id,
                 text |-> message, outcome |-> outcome]
    IN [calls |-> IF outcome = "ok" THEN <<call>> ELSE <<call, call>>,
        log   |-> IF outcome = "ok" THEN << <<"Telegram Alert Sent">> >>
                  ELSE << <<"Telegram Error", outcome>> >>,
        raised |-> FALSE]

\* send_telegram_message: one post, one print
SendTelegramMessage(token, chat_id, message, outcome) ==
    [calls |-> << [token |-> token, chat_id |-> chat_id,
                   text |-> message, outcome |-> outcome] >>,
     log   |-> IF outcome = "ok" THEN << <<"Telegram Alert Sent">> >>
               ELSE IF Caught(outcome)
                    THEN << <<"Telegram Error", outcome>> >>
                    ELSE <<>>,
     raised |-> outcome # "ok" /\ ~Caught(outcome)]

\* The for loop of send_alerts over alerts[i..], oc[i] being what the i-th
\* post does; an exception that escapes one call ends the loop.
RECURSIVE SendLoop(_, _, _, _, _)
SendLoop(as, i, timestamp, environment, oc) ==
    IF i > Len(as) THEN [calls |-> <<>>, log |-> <<>>, raised |-> FALSE]
    ELSE LET one == SendTelegramMessage(environment.TELEGRAM_BOT_TOKEN[1],
                                        environment.TELEGRAM_CHAT_ID[1],
                                        Message(as[i], timestamp), oc[i])
             rest == IF one.raised
                     THEN [calls |-> <<>>, log |-> <<>>, raised |-> TRUE]
                     ELSE SendLoop(as, i + 1, timestamp, environment, oc)
         IN [calls  |-> one.calls \o rest.calls,
             log    |-> one.log \o rest.log,
             raised |-> rest.raised]

SendAlerts(as, timestamp, environment, oc) ==
    IF ~CredentialsConfigured(environment)
    THEN [calls |-> <<>>,
          log |-> << <<"Telegram credentials not configured. Skipping alert.">> >>,
          raised |-> FALSE]
    ELSE SendLoop(as, 1, timestamp, environment, oc)

\* Number of posts the invocation will attempt (one outcome is drawn for
\* each).
NumCalls(levels, environment, ev) ==
    IF ev.kind = "json_object" /\ CredentialsConfigured(environment)
    THEN Len(ComputeAlerts(levels, ev.data))
    ELSE 0

----------------------------------------------------------------------------
(* process_sale_event as a whole *)

\* Variant: a message that is delivered a second time is recognised and
\* skipped.
HandleObject_Deduplicates(levels, environment, d, oc) ==
    LET as == ComputeAlerts(levels, d)
        sent == IF as # <<>>
                THEN SendAlerts(as, Timestamp(d), environment, oc)
                ELSE [calls |-> <<>>, log |-> <<>>, raised |-> FALSE]
    IN IF redelivery.pc = "again"
       THEN [levels |-> levels, alerts |-> <<>>, calls |-> <<>>,
             log |-> << <<"Duplicate", d.transaction_id>> >>,
             result |-> "returned"]
       ELSE [levels |-> LevelsAfter(levels, d),
             alerts |-> as,
             calls  |-> sent.calls,
             log    |-> << <<"Processing", Get(d.transaction_id, "UNKNOWN")>> >>
                        \o AlertLog(as) \o sent.log
                        \o << <<"Processed", d.transaction_id>> >>,
             result |-> "returned"]

\* Variant: a failed delivery undoes the ledger write.
HandleObject_Rollback(levels, environment, d, oc) ==
    LET as == ComputeAlerts(levels, d)
        sent == IF as # <<>>
                THEN SendAlerts(as, Timestamp(d), environment, oc)
                ELSE [calls |-> <<>>, log |-> <<>>, raised |-> FALSE]
        failed == \E i \in 1..Len(sent.calls) : sent.calls[i].outcome # "ok"
    IN [levels |-> IF failed THEN levels ELSE LevelsAfter(levels, d),
        alerts |-> as,
        calls  |-> sent.calls,
        log    |-> << <<"Processing", Get(d.transaction_id, "UNKNOWN")>> >>
                   \o AlertLog(as) \o sent.log
                   \o << <<"Processed", d.transaction_id>> >>,
        result |-> "returned"]

\* Steps 2 to 5, on a payload that decoded to a JSON object.  A ledger
\* write is never undone: the dispatch only reads the alerts.
HandleObject(levels, environment, d, oc) ==
    LET as == ComputeAlerts(levels, d)
        sent == IF as # <<>>
                THEN SendAlerts(as, Timestamp(d), environment, oc)
                ELSE [calls |-> <<>>, log |-> <<>>, raised |-> FALSE]
    IN [levels |-> LevelsAfter(levels, d),
        alerts |-> as,
        calls  |-> sent.calls,
        log    |-> << <<"Processing", Get(d.transaction_id, "UNKNOWN")>> >>
                   \o AlertLog(as) \o sent.log
                   \o (IF sent.raised THEN <<>>
                       ELSE << <<"Processed", d.transaction_id>> >>),
        result |-> IF sent.raised THEN "raised" ELSE "returned"]

Handle(levels, environment, ev, oc) ==
    IF DecodeFails(ev)
    THEN [levels |-> levels, alerts |-> <<>>, calls |-> <<>>,
          log |-> << <<"Failed to decode message">> >>,
          result |-> "returned"]
    ELSE IF ev.kind = "json_nonobject"
    THEN \* data.get raises AttributeError before anything is printed
         [levels |-> levels, alerts |-> <<>>, calls |-> <<>>,
          log |-> <<>>, result |-> "raised"]
    ELSE HandleObject(levels, environment, ev.data, oc)

----------------------------------------------------------------------------
(* Actions *)

NoPool == <<>>

NoReorder == [pc |-> "none"]

NoRedelivery == [pc |-> "none"]

NoPublisher == [pc |-> "none"]

NoCatalogDb == [pc |-> "none"]

NoBot == [pc |-> "none"]

\* What the handler's actions leave alone: the state of the other programs
Elsewhere == <<publisher, catalogDb, bot>>

Init ==
    /\ phase = "import"
    /\ kbFile \in KbFiles
    /\ STOCK_LEVELS = <<>>
    /\ env \in Envs
    /\ event = NoEvent
    /\ pre = <<>>
    /\ alerts = <<>>
    /\ calls = <<>>
    /\ log = <<>>
    /\ result = "none"
    /\ nEvents = 0
    /\ sales = <<>>
    /\ pool = NoPool
    /\ reorder = NoReorder
    /\ redelivery = NoRedelivery
    /\ publisher = NoPublisher
    /\ catalogDb = NoCatalogDb
    /\ bot = NoBot

\* The load_stock_levels() call of the module import
LoadLog(file) ==
    IF file.state = "missing" THEN <<>>
    ELSE IF file.state = "unparseable" \/ ComprehensionRaises(file.products)
    THEN << <<"Error syncing Alert System">> >>
    ELSE IF file.products # <<>>
    THEN << <<"Alert System synchronized",
              Cardinality(DOMAIN NewLevels(file.products))>> >>
    ELSE <<>>

LoadStockLevels ==
    /\ phase = "import"
    /\ STOCK_LEVELS' = LoadedLevels(kbFile)
    /\ pre' = LoadedLevels(kbFile)
    /\ log' = LoadLog(kbFile)
    /\ phase' = "ready"
    /\ UNCHANGED <<kbFile, env, event, alerts, calls, result, nEvents, sales,
                   pool, reorder, redelivery, Elsewhere>>

\* The transport triggers the function with one message.
Trigger ==
    /\ phase = "ready"
    /\ nEvents < MaxEvents
    /\ \E e \in Events : event' = e
    /\ nEvents' = nEvents + 1
    /\ phase' = "triggered"
    /\ UNCHANGED <<kbFile, STOCK_LEVELS, env, pre, alerts, calls, log, result,
                   sales, pool, reorder, redelivery, Elsewhere>>

process_sale_event ==
    /\ phase = "triggered"
    /\ \E oc \in [1..NumCalls(STOCK_LEVELS, env, event) -> Outcomes] :
          LET r == Handle(STOCK_LEVELS, env, event, oc)
          IN /\ STOCK_LEVELS' = r.levels
             /\ alerts' = r.alerts
             /\ calls' = r.calls
             /\ log' = r.log
             /\ result' = r.result
             /\ sales' = IF event.kind = "json_object"
                            /\ Has(STOCK_LEVELS, ProductId(event.data))
                         THEN Append(sales,
                                  <<ProductId(event.data),
                                    Quantity(event.data),
                                    \E i \in 1..Len(r.alerts) :
                                        r.alerts[i].type = "LOW_STOCK">>)
                         ELSE sales
    /\ pre' = STOCK_LEVELS
    /\ phase' = "returned"
    /\ UNCHANGED <<kbFile, env, event, nEvents, pool, reorder, redelivery,
                   Elsewhere>>

\* The invocation is over: its locals and output are gone, the module
\* globals stay for the next message.
AwaitMessage ==
    /\ phase = "returned"
    /\ phase' = "ready"
    /\ event' = NoEvent
    /\ pre' = STOCK_LEVELS
    /\ alerts' = <<>>
    /\ calls' = <<>>
    /\ log' = <<>>
    /\ result' = "none"
    /\ redelivery' = NoRedelivery
    /\ UNCHANGED <<kbFile, STOCK_LEVELS, env, nEvents, sales, pool, reorder,
                   Elsewhere>>

Next ==
    \/ LoadStockLevels
    \/ Trigger
    \/ process_sale_event
    \/ AwaitMessage

Spec == Init /\ [][Next]_vars

----------------------------------------------------------------------------
(* At-least-once delivery.  The transport may hand the message of an       *)
(* invocation that returned to the function once more; the function is     *)
(* triggered with the same event, on the ledger the first delivery left.   *)

Redeliver ==
    /\ phase = "returned"
    /\ redelivery = NoRedelivery
    /\ nEvents < MaxEvents
    /\ redelivery' = [pc |-> "again", pre |-> pre, levels |-> STOCK_LEVELS,
                      alerts |-> alerts, calls |-> calls, result |-> result]
    /\ nEvents' = nEvents + 1
    /\ phase' = "triggered"
    /\ pre' = STOCK_LEVELS
    /\ alerts' = <<>>
    /\ calls' = <<>>
    /\ log' = <<>>
    /\ result' = "none"
    /\ UNCHANGED <<kbFile, STOCK_LEVELS, env, event, sales, pool, reorder,
                   Elsewhere>>

NextAtLeastOnce ==
    \/ Next
    \/ Redeliver

SpecAtLeastOnce == Init /\ [][NextAtLeastOnce]_vars

----------------------------------------------------------------------------
(* Concurrent invocations.  The handler takes no lock, and the runtime may *)
(* run several invocations of one instance as threads that share the       *)
(* module global STOCK_LEVELS.  Between two accesses to the global another *)
(* thread may run, so an invocation is split at its accesses: the read of  *)
(* STOCK_LEVELS[product_id] and the write of the difference (the two       *)
(* halves of "-=", line 86), and the read into current_stock (line 87).    *)

MaxThreads == 2

Threads == 1..MaxThreads

PoolPayloads ==
    {d \in Payloads :
        /\ d.transaction_id # None
        /\ d.product_name # None
        /\ d.store_id # None
        /\ d.price = None
        /\ d.total # None
        /\ d.product_id # None}

IdleThread ==
    [pc |-> "idle", data |-> EmptyPayload, loaded |-> 0, current_stock |-> 0,
     alerts |-> <<>>, calls |-> <<>>]

InitPool ==
    /\ phase = "pool"
    /\ kbFile \in KbFiles
    /\ STOCK_LEVELS = LoadedLevels(kbFile)
    /\ pre = LoadedLevels(kbFile)
    /\ env \in Envs
    /\ event = NoEvent
    /\ alerts = <<>>
    /\ calls = <<>>
    /\ log = <<>>
    /\ result = "none"
    /\ nEvents = 0
    /\ sales = <<>>
    /\ pool = [t \in Threads |-> IdleThread]
    /\ reorder = NoReorder
    /\ redelivery = NoRedelivery
    /\ publisher = NoPublisher
    /\ catalogDb = NoCatalogDb
    /\ bot = NoBot

PoolFrame ==
    UNCHANGED <<phase, kbFile, env, event, pre, alerts, calls, log, result,
                nEvents, sales, reorder, redelivery, Elsewhere>>

\* Lines 63-83: decode, extract, alerts = []
ThreadStart(t) ==
    /\ pool[t].pc = "idle"
    /\ \E d \in PoolPayloads :
          pool' = [pool EXCEPT ![t].pc = "load", ![t].data = d]
    /\ UNCHANGED STOCK_LEVELS
    /\ PoolFrame

\* Lines 85-86, first half: the membership test and the read of the entry
ThreadLoad(t) ==
    /\ pool[t].pc = "load"
    /\ pool' = IF Has(STOCK_LEVELS, ProductId(pool[t].data))
               THEN [pool EXCEPT
                       ![t].pc = "store",
                       ![t].loaded = STOCK_LEVELS[ProductId(pool[t].data)]]
               ELSE [pool EXCEPT ![t].pc = "value"]
    /\ UNCHANGED STOCK_LEVELS
    /\ PoolFrame

\* Line 86, second half: the write of (value read) - quantity
ThreadStore(t) ==
    /\ pool[t].pc = "store"
    /\ STOCK_LEVELS' =
          [STOCK_LEVELS EXCEPT ![ProductId(pool[t].data)] =
              pool[t].loaded - Quantity(pool[t].data)]
    /\ pool' = [pool EXCEPT ![t].pc = "readback"]
    /\ PoolFrame

\* Lines 87-101: current_stock = STOCK_LEVELS[product_id], the stock rule
ThreadReadBack(t) ==
    /\ pool[t].pc = "readback"
    /\ LET cs == STOCK_LEVELS[ProductId(pool[t].data)]
       IN pool' = [pool EXCEPT
                     ![t].pc = "value",
                     ![t].current_stock = cs,
                     ![t].alerts = IF LowStockFires(cs)
                                   THEN << LowStockAlert(pool[t].data, cs) >>
                                   ELSE <<>>]
    /\ UNCHANGED STOCK_LEVELS
    /\ PoolFrame

\* Lines 103-122: the value rule and the dispatch
ThreadFinish(t) ==
    /\ pool[t].pc = "value"
    /\ LET as == pool[t].alerts \o ValueAlerts(pool[t].data)
           n == IF CredentialsConfigured(env) THEN Len(as) ELSE 0
       IN \E oc \in [1..n -> Outcomes] :
             pool' = [pool EXCEPT
                        ![t].pc = "done",
                        ![t].alerts = as,
                        ![t].calls =
                            IF as # <<>>
                            THEN SendAlerts(as, Timestamp(pool[t].data),
                                            env, oc).calls
                            ELSE <<>>]
    /\ UNCHANGED STOCK_LEVELS
    /\ PoolFrame

NextPool ==
    \E t \in Threads :
        \/ ThreadStart(t)
        \/ ThreadLoad(t)
        \/ ThreadStore(t)
        \/ ThreadReadBack(t)
        \/ ThreadFinish(t)

SpecPool == InitPool /\ [][NextPool]_vars

----------------------------------------------------------------------------
(* The reorder calculator: InventoryAgent._calculate_reorder, the same     *)
(* code in src/ai/inventory_agent.py and src/ai/smart_agent.py.  Prices    *)
(* are in cents, multipliers in tenths.                                    *)

MaxStock == 24

\* PRODUCT_DB of src/ai/smart_agent.py
StaticProductDb ==
    [id \in {"SKU001", "SKU002", "SKU003", "SKU004", "SKU005"} |->
        CASE id = "SKU001" ->
               [name |-> Some("Red T-Shirt"), price |-> Some(2999),
                reorder_point |-> 10, lead_time |-> 5]
          [] id = "SKU002" ->
               [name |-> Some("Blue Jeans"), price |-> Some(7999),
                reorder_point |-> 8, lead_time |-> 7]
          [] id = "SKU003" ->
               [name |-> Some("White Sneakers"), price |-> Some(12999),
                reorder_point |-> 5, lead_time |-> 10]
          [] id = "SKU004" ->
               [name |-> Some("Black Dress"), price |-> Some(9999),
                reorder_point |-> 5, lead_time |-> 7]
          [] id = "SKU005" ->
               [name |-> Some("Winter Jacket"), price |-> Some(14999),
                reorder_point |-> 3, lead_time |-> 14]]

\* A knowledge base as src/ai/inventory_agent.py may find it
KbProducts ==
    << [id |-> Some("KB0"), name |-> Some("Clearance Cap"),
        base_price |-> Some(999), reorder_point |-> Some(0),
        lead_time_days |-> Some(5)],
       [id |-> Some("KB15"), name |-> Some("Rain Coat"),
        base_price |-> Some(7999), reorder_point |-> Some(15),
        lead_time_days |-> None],
       [id |-> Some("KBDEF"), name |-> None,
        base_price |-> None, reorder_point |-> None,
        lead_time_days |-> None] >>

\* _load_databases of src/ai/inventory_agent.py, the product loop
RECURSIVE LoadProductDb(_)
LoadProductDb(products) ==
    IF products = <<>> THEN <<>>
    ELSE LET n == Len(products)
             p == products[n]
             rest == LoadProductDb(SubSeq(products, 1, n - 1))
             sku == Get(p.id, "UNKNOWN")
         IN [k \in DOMAIN rest \cup {sku} |->
                IF k = sku
                THEN [name |-> p.name, price |-> p.base_price,
                      reorder_point |-> Get(p.reorder_point, 10),
                      lead_time |-> Get(p.lead_time_days, 7)]
                ELSE rest[k]]

ProductDbs == {StaticProductDb, LoadProductDb(KbProducts)}

ReorderIds ==
    {"SKU001", "SKU002", "SKU003", "SKU004", "SKU005",
     "KB0", "KB15", "KBDEF", "SKU999"}

\* "critical" stands for any value outside the table
Urgencies == {"low", "normal", "high", "critical"}

\* Variant: a value outside the table gets the "low" multiplier.
UrgencyMultiplier_FallbackLow(urgency) ==
    CASE urgency = "low" -> 10
      [] urgency = "normal" -> 15
      [] urgency = "high" -> 20
      [] OTHER -> 10

\* urgency_multiplier.get(urgency, 1.5), in tenths
UrgencyMultiplier(urgency) ==
    CASE urgency = "low" -> 10
      [] urgency = "normal" -> 15
      [] urgency = "high" -> 20
      [] OTHER -> 15

\* int(x / 10): truncation toward zero
TruncTenths(x) == IF x >= 0 THEN x \div 10 ELSE 0 - ((0 - x) \div 10)

\* int(reorder_point * multiplier * 2)
RecommendedQty(reorder_point, urgency) ==
    TruncTenths(reorder_point * UrgencyMultiplier(urgency) * 2)

\* Variant: the warning band excludes its upper end.
ReorderStatus_StrictWarning(current_stock, reorder_point) ==
    IF current_stock <= reorder_point
    THEN "URGENT: Below reorder point!"
    ELSE IF current_stock * 10 < reorder_point * 15
    THEN "WARNING: Approaching reorder point"
    ELSE "Stock levels adequate"

\* if current_stock <= reorder_point ... elif current_stock <=
\* reorder_point * 1.5 ... else
ReorderStatus(current_stock, reorder_point) ==
    IF current_stock <= reorder_point
    THEN "URGENT: Below reorder point!"
    ELSE IF current_stock * 10 <= reorder_point * 15
    THEN "WARNING: Approaching reorder point"
    ELSE "Stock levels adequate"

\* Variant: the product is subscripted (PRODUCT_DB[product_id]), so an
\* unknown id raises KeyError.
CalculateReorder_Subscript(db, product_id, current_stock, urgency) ==
    IF product_id \notin DOMAIN db \/ db[product_id].price = None
    THEN [kind |-> "raised"]
    ELSE [kind            |-> "analysis",
          name            |-> db[product_id].name,
          status          |-> ReorderStatus(current_stock,
                                            db[product_id].reorder_point),
          current_stock   |-> current_stock,
          reorder_point   |-> db[product_id].reorder_point,
          lead_time       |-> db[product_id].lead_time,
          recommended_qty |-> RecommendedQty(db[product_id].reorder_point,
                                             urgency),
          cost_tenths     |-> db[product_id].price[1] * 6
                              * RecommendedQty(db[product_id].reorder_point,
                                               urgency)]

\* The answer of _calculate_reorder.  product['price'] * 0.6 raises
\* TypeError when the knowledge base gave no base_price; the cost is kept
\* exact, in tenths of a cent (price * 0.6 * quantity before ":.2f").
CalculateReorder(db, product_id, current_stock, urgency) ==
    IF product_id \notin DOMAIN db
    THEN [kind |-> "not_found", product_id |-> product_id]
    ELSE LET product == db[product_id]
             qty == RecommendedQty(product.reorder_point, urgency)
         IN IF product.price = None
            THEN [kind |-> "raised"]
            ELSE [kind            |-> "analysis",
                  name            |-> product.name,
                  status          |-> ReorderStatus(current_stock,
                                                    product.reorder_point),
                  current_stock   |-> current_stock,
                  reorder_point   |-> product.reorder_point,
                  lead_time       |-> product.lead_time,
                  recommended_qty |-> qty,
                  cost_tenths     |-> product.price[1] * 6 * qty]

InitReorder ==
    /\ phase = "agent"
    /\ kbFile = [state |-> "missing", products |-> <<>>]
    /\ STOCK_LEVELS = <<>>
    /\ pre = <<>>
    /\ env = [TELEGRAM_BOT_TOKEN |-> None, TELEGRAM_CHAT_ID |-> None]
    /\ event = NoEvent
    /\ alerts = <<>>
    /\ calls = <<>>
    /\ log = <<>>
    /\ result = "none"
    /\ nEvents = 0
    /\ sales = <<>>
    /\ pool = NoPool
    /\ redelivery = NoRedelivery
    /\ publisher = NoPublisher
    /\ catalogDb = NoCatalogDb
    /\ bot = NoBot
    /\ \E db \in ProductDbs, id \in ReorderIds, cs \in 0..MaxStock,
          u \in Urgencies :
          reorder = [pc |-> "call", db |-> db, product_id |-> id,
                     current_stock |-> cs, urgency |-> u,
                     out |-> [kind |-> "none"]]

calculate_reorder ==
    /\ reorder.pc = "call"
    /\ reorder' = [reorder EXCEPT
                     !.pc = "returned",
                     !.out = CalculateReorder(reorder.db, reorder.product_id,
                                              reorder.current_stock,
                                              reorder.urgency)]
    /\ UNCHANGED <<phase, kbFile, STOCK_LEVELS, env, event, pre, alerts,
                   calls, log, result, nEvents, sales, pool, redelivery,
                   Elsewhere>>

NextReorder == calculate_reorder

SpecReorder == InitReorder /\ [][NextReorder]_vars

----------------------------------------------------------------------------
(* The sale event simulator: run_publisher of src/publisher.py.  One       *)
(* action per statement of the loop; the KeyboardInterrupt of Ctrl+C may   *)
(* arrive at any of them.  Prices are in cents, discount factors in        *)
(* hundredths.                                                             *)

MaxCount == 2

\* events_sent is unbounded when count is None; the model follows such a
\* run for MaxSent iterations.
MaxSent == 3

\* The defaults of load_catalog
DefaultCatalog ==
    << [id |-> Some("SKU001"), name |-> Some("Red T-Shirt"),
        category |-> Some("T-Shirt"), base_price |-> Some(2999)],
       [id |-> Some("SKU002"), name |-> Some("Blue Jeans"),
        category |-> Some("Jeans"), base_price |-> Some(7999)],
       [id |-> Some("SKU003"), name |-> Some("White Sneakers"),
        category |-> Some("Sneakers"), base_price |-> Some(12999)],
       [id |-> Some("SKU004"), name |-> Some("Black Dress"),
        category |-> Some("Dress"), base_price |-> Some(9999)],
       [id |-> Some("SKU005"), name |-> Some("Winter Jacket"),
        category |-> Some("Jacket"), base_price |-> Some(14999)] >>

\* knowledge_base/products.json as the simulator may find it; the second
\* product of the last file carries "price" in place of "base_price"
CatalogFiles ==
    { [state |-> "missing", products |-> <<>>],
      [state |-> "unparseable", products |-> <<>>],
      [state |-> "parsed", products |-> <<>>],
      [state |-> "parsed",
       products |-> << [id |-> Some("KB15"), name |-> Some("Rain Coat"),
                        category |-> Some("Coat"),
                        base_price |-> Some(7999)],
                       [id |-> Some("KB0"), name |-> Some("Clearance Cap"),
                        category |-> Some("Cap"), base_price |-> None] >>] }

\* load_catalog: the file's products replace the defaults when the file
\* parses and lists at least one product.
LoadCatalog(file) ==
    IF file.state = "parsed" /\ file.products # <<>>
    THEN file.products
    ELSE DefaultCatalog

\* random.uniform(0.85, 1.0): the two ends stand for the interval
DiscountFactors == {85, 100}

\* round(x / 100) of a non-negative amount
RoundHundredths(x) == (x + 50) \div 100

\* product["base_price"], product["id"], product["name"] and
\* product["category"] raise KeyError when the key is missing.
GenerateRaises(product) ==
    \/ product.base_price = None
    \/ product.id = None
    \/ product.name = None
    \/ product.category = None

\* generate_sale_event, for the product, quantity and factor drawn
SaleEvent(product, quantity, factor) ==
    [product_id   |-> product.id[1],
     product_name |-> product.name[1],
     category     |-> product.category[1],
     quantity     |-> quantity,
     price        |-> RoundHundredths(product.base_price[1] * factor),
     total        |-> RoundHundredths(product.base_price[1] * factor)
                      * quantity]

NoSaleEvent == [product_id |-> "none"]

\* What publish_to_pubsub can do: publish, fail to import the client
\* library, fail in the client.  It returns True or False and raises
\* nothing but what it does not catch.
PublishOutcomes == {"published", "import_error", "publish_error"}

Counts == {None} \cup {Some(n) : n \in 0..MaxCount}

\* Variant: the test is events_sent <= count.
LoopContinues_Inclusive(count, events_sent) ==
    count = None \/ events_sent <= count[1]

\* while count is None or events_sent < count
LoopContinues(count, events_sent) ==
    count = None \/ events_sent < count[1]

\* Variant: the clause is "except Exception", which a KeyboardInterrupt
\* passes through.
OnKeyboardInterrupt_ExceptException(p) ==
    [p EXCEPT !.pc = "done", !.stop = TRUE, !.out = "raised"]

\* except KeyboardInterrupt: print the total and fall off the function
OnKeyboardInterrupt(p) ==
    [p EXCEPT !.pc = "done", !.stop = TRUE, !.out = "returned",
              !.log = Append(@, <<"Publisher stopped", p.events_sent>>)]

InitPublisher ==
    /\ phase = "publisher"
    /\ kbFile = [state |-> "missing", products |-> <<>>]
    /\ STOCK_LEVELS = <<>>
    /\ pre = <<>>
    /\ env = [TELEGRAM_BOT_TOKEN |-> None, TELEGRAM_CHAT_ID |-> None]
    /\ event = NoEvent
    /\ alerts = <<>>
    /\ calls = <<>>
    /\ log = <<>>
    /\ result = "none"
    /\ nEvents = 0
    /\ sales = <<>>
    /\ pool = NoPool
    /\ reorder = NoReorder
    /\ redelivery = NoRedelivery
    /\ catalogDb = NoCatalogDb
    /\ bot = NoBot
    /\ \E file \in CatalogFiles, c \in Counts, up \in BOOLEAN :
          publisher = [pc |-> "test", catalog |-> LoadCatalog(file),
                       count |-> c, use_pubsub |-> up, events_sent |-> 0,
                       event |-> NoSaleEvent, generated |-> 0,
                       handed |-> 0, published |-> 0, stop |-> FALSE,
                       out |-> "running", log |-> <<>>]

PublisherFrame ==
    UNCHANGED <<phase, kbFile, STOCK_LEVELS, env, event, pre, alerts, calls,
                log, result, nEvents, sales, pool, reorder, redelivery,
                catalogDb, bot>>

\* Line 128: the loop test; the function returns when it fails.
PublisherTest ==
    /\ publisher.pc = "test"
    /\ publisher.count # None \/ publisher.events_sent < MaxSent
    /\ publisher' =
          IF LoopContinues(publisher.count, publisher.events_sent)
          THEN [publisher EXCEPT !.pc = "generate"]
          ELSE [publisher EXCEPT !.pc = "done", !.out = "returned"]
    /\ PublisherFrame

\* Line 129: event = generate_sale_event(); a KeyError is caught nowhere.
PublisherGenerate ==
    /\ publisher.pc = "generate"
    /\ \E i \in 1..Len(publisher.catalog), q \in 1..3,
          f \in DiscountFactors :
          publisher' =
             IF GenerateRaises(publisher.catalog[i])
             THEN [publisher EXCEPT !.pc = "done", !.out = "raised"]
             ELSE [publisher EXCEPT
                     !.pc = "publish",
                     !.event = SaleEvent(publisher.catalog[i], q, f),
                     !.generated = @ + 1]
    /\ PublisherFrame

\* Lines 131-134: the event is handed to publish_to_pubsub or to
\* publish_to_console; the value returned is not looked at.
PublisherPublish ==
    /\ publisher.pc = "publish"
    /\ \E oc \in IF publisher.use_pubsub THEN PublishOutcomes
                 ELSE {"published"} :
          publisher' =
             [publisher EXCEPT
                !.pc = "increment",
                !.handed = @ + 1,
                !.published = IF oc = "published" THEN @ + 1 ELSE @]
    /\ PublisherFrame

\* Line 136: events_sent += 1
PublisherIncrement ==
    /\ publisher.pc = "increment"
    /\ publisher' = [publisher EXCEPT !.pc = "sleep", !.events_sent = @ + 1]
    /\ PublisherFrame

\* Lines 139-140: time.sleep(interval * random.uniform(0.5, 1.5))
PublisherSleep ==
    /\ publisher.pc = "sleep"
    /\ publisher' = [publisher EXCEPT !.pc = "test"]
    /\ PublisherFrame

\* Ctrl+C while the loop is at any of its statements
KeyboardInterrupt ==
    /\ publisher.pc \in {"test", "generate", "publish", "increment", "sleep"}
    /\ publisher' = OnKeyboardInterrupt(publisher)
    /\ PublisherFrame

PublisherStep ==
    \/ PublisherTest
    \/ PublisherGenerate
    \/ PublisherPublish
    \/ PublisherIncrement
    \/ PublisherSleep

NextPublisher ==
    \/ PublisherStep
    \/ KeyboardInterrupt

SpecPublisher == InitPublisher /\ [][NextPublisher]_vars

\* The interpreter keeps executing the loop's statements.
SpecPublisherFair == SpecPublisher /\ WF_vars(PublisherStep)

----------------------------------------------------------------------------
(* The catalog store: init_db and batch_insert_products of                 *)
(* src/inventory_db.py.  The products table is the set of its rows.  A     *)
(* DataFrame is a sequence of rows over the same columns; a column the     *)
(* frame does not have is None in every row.  Prices are in cents.         *)

MaxImports == 2

MaxBatch == 2

\* A stock cell that int() rejects
NotANumber == <<"n/a", "str">>

BlankRow ==
    [sku |-> None, id |-> None, name |-> None, category |-> None,
     stock |-> None, base_price |-> None, price |-> None,
     supplier_id |-> None, supplier |-> None, description |-> None,
     reorder_point |-> None, lead_time_days |-> None]

\* Frames with the columns sku, name, stock, base_price
FrameSkuRows ==
    { [BlankRow EXCEPT !.sku = Some("SKU001"), !.name = Some("Red T-Shirt"),
                       !.stock = Some(50), !.base_price = Some(2999)],
      [BlankRow EXCEPT !.sku = Some("SKU002"), !.name = Some("Blue Jeans"),
                       !.stock = Some(30), !.base_price = Some(7999)],
      [BlankRow EXCEPT !.sku = Some("SKU001"), !.name = Some("Red Tee"),
                       !.stock = Some(45), !.base_price = Some(2499)] }

\* Frames with the columns id, name, price, supplier, reorder_point
FrameIdRows ==
    { [BlankRow EXCEPT !.id = Some("SKU001"), !.name = Some("Crimson Tee"),
                       !.price = Some(1999), !.supplier = Some("SUP01"),
                       !.reorder_point = Some(4)],
      [BlankRow EXCEPT !.id = Some(""), !.name = Some("Nameless"),
                       !.price = Some(100), !.supplier = Some("SUP02"),
                       !.reorder_point = Some(1)] }

\* Frames with the columns sku, id, name, base_price, price, supplier_id
FrameBothRows ==
    { [BlankRow EXCEPT !.sku = Some(""), !.id = Some("SKU002"),
                       !.name = Some("Denim"), !.base_price = Some(0),
                       !.price = Some(500), !.supplier_id = Some("")] }

\* Frames with the columns sku, name, stock, the stock not a number
FrameBadStockRows ==
    { [BlankRow EXCEPT !.sku = Some("SKU002"), !.name = Some("Jeans"),
                       !.stock = NotANumber] }

FramesOver(rows) ==
    UNION { [1..n -> rows] : n \in 1..MaxBatch }

Frames ==
    FramesOver(FrameSkuRows) \cup FramesOver(FrameIdRows)
    \cup FramesOver(FrameBothRows) \cup FramesOver(FrameBadStockRows)

\* a or b, for text cells: a when it is there and not empty
OrText(a, b) == IF a # None /\ a # Some("") THEN a ELSE b

\* a or b, for numeric cells: a when it is there and not zero
OrNumber(a, b) == IF a # None /\ a # Some(0) THEN a ELSE b

\* str(row.get('sku') or row.get('id', ''))
Sku(row) == OrText(row.sku, Some(Get(row.id, "")))[1]

\* int(row.get('stock', 0)) raises ValueError on a cell that is no number
RowRaises(row) == row.stock = NotANumber

\* The tuple appended to data for a row (lines 157-167)
TableRow(row) ==
    [sku            |-> Sku(row),
     name           |-> Get(row.name, "Unknown"),
     category       |-> Get(row.category, "Miscellaneous"),
     stock          |-> Get(row.stock, 0),
     base_price     |-> OrNumber(row.base_price, Some(Get(row.price, 0)))[1],
     supplier_id    |-> OrText(row.supplier_id,
                               Some(Get(row.supplier, "Unknown")))[1],
     description    |-> Get(row.description, ""),
     reorder_point  |-> Get(row.reorder_point, 10),
     lead_time_days |-> Get(row.lead_time_days, 7)]

\* if not sku: continue
Kept(df) == SelectSeq(df, LAMBDA row : Sku(row) # "")

\* The loop raises at the first kept row whose stock is no number; nothing
\* has been executed by then.
FrameRaises(df) == \E i \in 1..Len(Kept(df)) : RowRaises(Kept(df)[i])

\* Variant: INSERT OR IGNORE, the row already there wins.
InsertOrReplace_Ignore(table, r) ==
    IF \E old \in table : old.sku = r.sku THEN table ELSE table \cup {r}

\* INSERT OR REPLACE on the primary key sku: the row with the same sku is
\* deleted, the new one inserted.
InsertOrReplace(table, r) ==
    {old \in table : old.sku # r.sku} \cup {r}

\* cursor.executemany over data[i..], in order
RECURSIVE ExecuteMany(_, _, _)
ExecuteMany(table, rows, i) ==
    IF i > Len(rows) THEN table
    ELSE ExecuteMany(InsertOrReplace(table, TableRow(rows[i])), rows, i + 1)

\* batch_insert_products(df): the table it leaves and what it returns
BatchInsertProducts(table, df) ==
    IF FrameRaises(df)
    THEN [table |-> table, out |-> "raised", count |-> 0]
    ELSE [table |-> ExecuteMany(table, Kept(df), 1), out |-> "returned",
          count |-> Len(Kept(df))]

\* The frame rows imported last under each key, as they were handed in
RECURSIVE LatestAfter(_, _, _)
LatestAfter(latest, rows, i) ==
    IF i > Len(rows) THEN latest
    ELSE LatestAfter([k \in DOMAIN latest \cup {Sku(rows[i])} |->
                         IF k = Sku(rows[i]) THEN rows[i] ELSE latest[k]],
                     rows, i + 1)

\* init_db on a fresh file: CREATE TABLE IF NOT EXISTS products
InitCatalogDb ==
    /\ phase = "catalog"
    /\ kbFile = [state |-> "missing", products |-> <<>>]
    /\ STOCK_LEVELS = <<>>
    /\ pre = <<>>
    /\ env = [TELEGRAM_BOT_TOKEN |-> None, TELEGRAM_CHAT_ID |-> None]
    /\ event = NoEvent
    /\ alerts = <<>>
    /\ calls = <<>>
    /\ log = <<>>
    /\ result = "none"
    /\ nEvents = 0
    /\ sales = <<>>
    /\ pool = NoPool
    /\ reorder = NoReorder
    /\ redelivery = NoRedelivery
    /\ publisher = NoPublisher
    /\ bot = NoBot
    /\ catalogDb = [pc |-> "open", table |-> {}, imports |-> 0,
                    df |-> <<>>, previous |-> <<>>, before |-> {},
                    out |-> "none", count |-> 0, latest |-> <<>>]

batch_insert_products ==
    /\ catalogDb.pc = "open"
    /\ catalogDb.imports < MaxImports
    /\ \E df \in Frames :
          LET r == BatchInsertProducts(catalogDb.table, df)
          IN catalogDb' =
                [catalogDb EXCEPT
                   !.table = r.table,
                   !.imports = @ + 1,
                   !.df = df,
                   !.previous = catalogDb.df,
                   !.before = catalogDb.table,
                   !.out = r.out,
                   !.count = r.count,
                   !.latest = IF r.out = "raised" THEN @
                              ELSE LatestAfter(@, Kept(df), 1)]
    /\ UNCHANGED <<phase, kbFile, STOCK_LEVELS, env, event, pre, alerts,
                   calls, log, result, nEvents, sales, pool, reorder,
                   redelivery, publisher, bot>>

NextCatalogDb == batch_insert_products

SpecCatalogDb == InitCatalogDb /\ [][NextCatalogDb]_vars

----------------------------------------------------------------------------
(* The two-way Telegram bot of src/app.py: start_telegram_bot and the      *)
(* telegram_listener threads it starts.  The threads share the module      *)
(* global polling_active; a listener reads it only at the top of its       *)
(* while loop.  The Bot API keeps the updates not yet confirmed: a         *)
(* getUpdates call with offset o confirms every update below o and         *)
(* returns the pending ones from o on.                                     *)

MaxStarts == 2

MaxMessages == 2

Listeners == 1..MaxStarts

Updates == 1..MaxMessages

UnbornListener == [pc |-> "unborn", offset |-> 0]

\* What a requests.get to getUpdates can do: answer 200, or fail (an
\* exception or another status)
PollOutcomes == {"ok", "failed"}

\* Whether the Telegram settings are given
BotConfigs == {"set", "missing"}

Max(a, b) == IF a >= b THEN a ELSE b

\* The updates a getUpdates call with this offset returns
Returned(b, offset) ==
    {u \in Updates : u <= b.sent /\ u > b.confirmed /\ u >= offset}

InitBot ==
    /\ phase = "bot"
    /\ kbFile = [state |-> "missing", products |-> <<>>]
    /\ STOCK_LEVELS = <<>>
    /\ pre = <<>>
    /\ env = [TELEGRAM_BOT_TOKEN |-> None, TELEGRAM_CHAT_ID |-> None]
    /\ event = NoEvent
    /\ alerts = <<>>
    /\ calls = <<>>
    /\ log = <<>>
    /\ result = "none"
    /\ nEvents = 0
    /\ sales = <<>>
    /\ pool = NoPool
    /\ reorder = NoReorder
    /\ redelivery = NoRedelivery
    /\ publisher = NoPublisher
    /\ catalogDb = NoCatalogDb
    /\ bot = [polling_active |-> FALSE,
              polling_thread |-> 0,
              starter        |-> "idle",
              waited         |-> FALSE,
              starts         |-> 0,
              listener       |-> [l \in Listeners |-> UnbornListener],
              sent           |-> 0,
              confirmed      |-> 0,
              answered       |-> [u \in Updates |-> {}]]

BotFrame ==
    UNCHANGED <<phase, kbFile, STOCK_LEVELS, env, event, pre, alerts, calls,
                log, result, nEvents, sales, pool, reorder, redelivery,
                publisher, catalogDb>>

\* is_alive() of a listener thread
Alive(b, l) == l # 0 /\ b.listener[l].pc \notin {"unborn", "exited"}

\* Line 519: polling_active = False
StartStopsOld ==
    /\ bot.starter = "idle"
    /\ bot.starts < MaxStarts
    /\ bot' = [bot EXCEPT !.polling_active = FALSE, !.starter = "stopping"]
    /\ BotFrame

\* Lines 520-522: when the old thread is alive, time.sleep(2)
StartWaits ==
    /\ bot.starter = "stopping"
    /\ bot' = [bot EXCEPT !.starter = "configuring",
                          !.waited = Alive(bot, bot.polling_thread)]
    /\ BotFrame

\* Lines 524-531: without token or chat id the call returns; otherwise
\* polling_active = True and a new thread is started.
StartNew ==
    /\ bot.starter = "configuring"
    /\ \E config \in BotConfigs :
          bot' =
             IF config = "missing"
             THEN [bot EXCEPT !.starter = "idle"]
             ELSE [bot EXCEPT
                     !.starter = "idle",
                     !.polling_active = TRUE,
                     !.starts = @ + 1,
                     !.polling_thread = bot.starts + 1,
                     !.listener[bot.starts + 1] =
                         [pc |-> "init", offset |-> 0]]
    /\ BotFrame

\* Lines 466-474: getUpdates with offset -1 confirms all but the last
\* update; the listener starts after it.  A failure leaves offset 0.
ListenerInit(l) ==
    /\ bot.listener[l].pc = "init"
    /\ \E oc \in PollOutcomes :
          bot' =
             IF oc = "ok" /\ bot.sent > bot.confirmed
             THEN [bot EXCEPT
                     !.listener[l] = [pc |-> "check", offset |-> bot.sent + 1],
                     !.confirmed = Max(@, bot.sent - 1)]
             ELSE [bot EXCEPT !.listener[l].pc = "check"]
    /\ BotFrame

\* Line 476: while polling_active
ListenerCheck(l) ==
    /\ bot.listener[l].pc = "check"
    /\ bot' = [bot EXCEPT
                 !.listener[l].pc =
                     IF bot.polling_active THEN "poll" ELSE "exited"]
    /\ BotFrame

\* Lines 477-505: one long poll; every update returned moves the offset
\* and is answered (process_message, send_telegram_message).
ListenerPoll(l) ==
    /\ bot.listener[l].pc = "poll"
    /\ \E oc \in PollOutcomes :
          LET offset == bot.listener[l].offset
              got == IF oc = "ok" THEN Returned(bot, offset) ELSE {}
          IN bot' =
                [bot EXCEPT
                   !.listener[l].pc = "sleep",
                   !.listener[l].offset =
                       IF got = {} THEN @
                       ELSE 1 + CHOOSE u \in got : \A v \in got : v <= u,
                   !.confirmed = IF oc = "ok" THEN Max(@, offset - 1) ELSE @,
                   !.answered = [u \in Updates |->
                                    IF u \in got THEN @[u] \cup {l}
                                    ELSE @[u]]]
    /\ BotFrame

\* Lines 507-512: time.sleep(1), or time.sleep(5) after an exception
ListenerSleep(l) ==
    /\ bot.listener[l].pc = "sleep"
    /\ bot' = [bot EXCEPT !.listener[l].pc = "check"]
    /\ BotFrame

\* The owner writes to the bot.
OwnerSends ==
    /\ bot.sent < MaxMessages
    /\ bot' = [bot EXCEPT !.sent = @ + 1]
    /\ BotFrame

NextBot ==
    \/ StartStopsOld
    \/ StartWaits
    \/ StartNew
    \/ OwnerSends
    \/ \E l \in Listeners :
          \/ ListenerInit(l)
          \/ ListenerCheck(l)
          \/ ListenerPoll(l)
          \/ ListenerSleep(l)

SpecBot == InitBot /\ [][NextBot]_vars

----------------------------------------------------------------------------
(* Properties.  They are stated on the state an invocation leaves behind  *)
(* (phase "returned"): event is the message, pre the ledger before, and   *)
(* STOCK_LEVELS, alerts, calls, log, result what the invocation did.      *)
(* The event's fields are read from the raw payload.                      *)

Processed == phase = "returned" /\ event.kind = "json_object"

EvProduct ==
    IF event.data.product_id = <<>> THEN "UNKNOWN"
    ELSE event.data.product_id[1]

EvQuantity ==
    IF event.data.quantity = <<>> THEN 1 ELSE event.data.quantity[1]

EvTotal ==
    IF event.data.total # <<>> THEN event.data.total[1]
    ELSE IF event.data.price # <<>> THEN event.data.price[1]
    ELSE 0

EvTracked == EvProduct \in DOMAIN pre

CountOf(as, t) == Cardinality({i \in 1..Len(as) : as[i].type = t})

LowStockAlerts == {i \in 1..Len(alerts) : alerts[i].type = "LOW_STOCK"}

FailedCalls == {i \in 1..Len(calls) : calls[i].outcome # "ok"}

\* C1: a sale of quantity Q on a tracked product with stock S leaves the
\* ledger entry at S - Q, and S - Q is the stock the alert evaluation uses
\* (the low-stock decision and the remaining-units figure).
C1_PostSaleStock ==
    (Processed /\ EvTracked) =>
        /\ STOCK_LEVELS[EvProduct] = pre[EvProduct] - EvQuantity
        /\ (LowStockAlerts # {}) <=> (pre[EvProduct] - EvQuantity <= LOW_STOCK_THRESHOLD)
        /\ \A i \in LowStockAlerts :
              alerts[i].details[2] = <<"Remaining", pre[EvProduct] - EvQuantity>>

C1_Witness ==
    /\ Processed /\ EvTracked
    /\ event.data.quantity = <<5>>
    /\ LowStockAlerts # {}
    /\ STOCK_LEVELS[EvProduct] = pre[EvProduct] - 5

C3_HighValueExactlyOne ==
    Processed =>
        CountOf(alerts, "HIGH_VALUE") =
            IF EvTotal > HIGH_VALUE_THRESHOLD THEN 1 ELSE 0

C3_Witness ==
    /\ Processed /\ ~EvTracked
    /\ EvTotal > HIGH_VALUE_THRESHOLD
    /\ CountOf(alerts, "HIGH_VALUE") = 1

\* C4: at most two alerts, never two of one type, LOW_STOCK before
\* HIGH_VALUE in the list and in the order of the posts.
C4_AlertOrder ==
    phase = "returned" =>
        /\ Len(alerts) <= 2
        /\ CountOf(alerts, "LOW_STOCK") <= 1
        /\ CountOf(alerts, "HIGH_VALUE") <= 1
        /\ Len(alerts) = 2 =>
              /\ alerts[1].type = "LOW_STOCK"
              /\ alerts[2].type = "HIGH_VALUE"
        /\ Len(calls) = 2 =>
              /\ calls[1].text[1] = "Low Stock Alert!"
              /\ calls[2].text[1] = "High-Value Sale Detected!"

C4_Witness ==
    /\ phase = "returned"
    /\ Len(alerts) = 2
    /\ Len(calls) = 2

\* C5: an event for a product that is not in the ledger leaves the ledger
\* as it was (no entry created), raises nothing, and produces no alert
\* when its total is not above the high-value threshold.
C5_UntrackedNoEffect ==
    (Processed /\ ~EvTracked) =>
        /\ STOCK_LEVELS = pre
        /\ EvProduct \notin DOMAIN STOCK_LEVELS
        /\ result = "returned"
        /\ (EvTotal <= HIGH_VALUE_THRESHOLD => alerts = <<>>)

C5_Witness ==
    /\ Processed
    /\ event.data.product_id = <<"SKU999">>
    /\ EvTotal <= HIGH_VALUE_THRESHOLD
    /\ alerts = <<>>
    /\ STOCK_LEVELS = pre

Undecodable ==
    event.kind \in {"no_data_key", "bad_base64", "bad_utf8", "bad_json"}

MissingRequired ==
    /\ event.kind = "json_object"
    /\ \/ event.data.transaction_id = <<>>
       \/ event.data.product_id = <<>>

Dropped ==
    /\ result = "returned"
    /\ STOCK_LEVELS = pre
    /\ alerts = <<>>
    /\ calls = <<>>

LogKinds(k) == {i \in 1..Len(log) : log[i][1] = k}

\* The ledger the event's arithmetic gives from pre: the event's product,
\* when tracked, lowered by the event's quantity, every other entry kept.
ExpectedLedger ==
    [k \in DOMAIN pre |->
        IF k = EvProduct THEN pre[k] - EvQuantity ELSE pre[k]]

CredsSet ==
    /\ env.TELEGRAM_BOT_TOKEN \notin {<<>>, <<"">>}
    /\ env.TELEGRAM_CHAT_ID \notin {<<>>, <<"">>}

C7_FailureContained ==
    Processed =>
        /\ Cardinality(LogKinds("Telegram Error")) = Cardinality(FailedCalls)
        /\ FailedCalls # {} =>
              /\ result = "returned"
              /\ log[Len(log)] = <<"Processed", event.data.transaction_id>>

C7_Witness ==
    /\ Processed
    /\ Len(calls) = 1
    /\ calls[1].outcome = "timeout"
    /\ result = "returned"
    /\ Cardinality(LogKinds("Telegram Error")) = 1

\* C8: a delivery failure leaves the ledger as the event's arithmetic made
\* it (the decrement stays) and the handler returns normally, so the next
\* event starts from the ledger a successful delivery would have left.
C8_FailureKeepsLedger ==
    (Processed /\ FailedCalls # {}) =>
        /\ STOCK_LEVELS = ExpectedLedger
        /\ DOMAIN STOCK_LEVELS = DOMAIN pre
        /\ result = "returned"

C8_Witness ==
    /\ Processed /\ EvTracked
    /\ nEvents = 2
    /\ FailedCalls # {}
    /\ STOCK_LEVELS[EvProduct] = pre[EvProduct] - EvQuantity
    /\ STOCK_LEVELS # pre

\* C9: with credentials configured there is exactly one post per alert, in
\* alert order, also after a failed post (no retry, no abandoning of the
\* second alert).
C9_OneCallPerAlert ==
    (Processed /\ CredsSet) =>
        /\ Len(calls) = Len(alerts)
        /\ \A i \in 1..Len(calls) :
              /\ calls[i].text[1] = alerts[i].title
              /\ calls[i].token = env.TELEGRAM_BOT_TOKEN[1]
              /\ calls[i].chat_id = env.TELEGRAM_CHAT_ID[1]

C9_Witness ==
    /\ Processed /\ CredsSet
    /\ Len(alerts) = 2
    /\ Len(calls) = 2
    /\ calls[1].outcome # "ok"

\* C10: without a bot token or chat id the ledger is still updated and the
\* alerts still computed, no post is made, and the skipped dispatch is
\* logged (once, when there is an alert to dispatch).
C10_NoCredentialsSkips ==
    (Processed /\ ~CredsSet) =>
        /\ calls = <<>>
        /\ result = "returned"
        /\ STOCK_LEVELS = ExpectedLedger
        /\ CountOf(alerts, "LOW_STOCK") =
              IF EvTracked /\ pre[EvProduct] - EvQuantity <= LOW_STOCK_THRESHOLD
              THEN 1 ELSE 0
        /\ CountOf(alerts, "HIGH_VALUE") =
              IF EvTotal > HIGH_VALUE_THRESHOLD THEN 1 ELSE 0
        /\ alerts # <<>> =>
              Cardinality(LogKinds(
                "Telegram credentials not configured. Skipping alert.")) = 1

C10_Witness ==
    /\ Processed /\ EvTracked
    /\ env.TELEGRAM_BOT_TOKEN = <<"">>
    /\ env.TELEGRAM_CHAT_ID # <<>>
    /\ Len(alerts) = 2
    /\ calls = <<>>
    /\ STOCK_LEVELS[EvProduct] = pre[EvProduct] - EvQuantity
    /\ LogKinds("Telegram credentials not configured. Skipping alert.") # {}

HighValueAlerts == {i \in 1..Len(alerts) : alerts[i].type = "HIGH_VALUE"}

\* C11: payload defaults.  Without quantity the tracked product's stock
\* drops by exactly 1; without total the price is the amount compared with
\* the high-value threshold (and the amount reported); without store_id
\* the store reported is "UNKNOWN".
C11_PayloadDefaults ==
    Processed =>
        /\ (event.data.quantity = <<>> /\ EvTracked) =>
              STOCK_LEVELS[EvProduct] = pre[EvProduct] - 1
        /\ (event.data.total = <<>> /\ event.data.price # <<>>) =>
              /\ (HighValueAlerts # {}) <=>
                    (event.data.price[1] > HIGH_VALUE_THRESHOLD)
              /\ \A i \in HighValueAlerts :
                    alerts[i].details[1] =
                        <<"Amount", <<"$", event.data.price[1] \div 100,
                                      event.data.price[1] % 100>> >>
        /\ event.data.store_id = <<>> =>
              /\ \A i \in LowStockAlerts :
                    alerts[i].details[3] = <<"Last Sale", "UNKNOWN">>
              /\ \A i \in HighValueAlerts :
                    alerts[i].details[3] = <<"Store", "UNKNOWN">>

C11_Witness ==
    /\ Processed /\ EvTracked
    /\ event.data.quantity = <<>>
    /\ event.data.total = <<>>
    /\ event.data.price = <<14999>>
    /\ event.data.store_id = <<>>
    /\ STOCK_LEVELS[EvProduct] = pre[EvProduct] - 1
    /\ Len(alerts) = 2

\* C12: no clamp at zero.  A sale of quantity Q on a tracked product whose
\* stock S is below Q leaves the entry at the negative value S - Q.
C12_NoFloorClamp ==
    (Processed /\ EvTracked /\ pre[EvProduct] < EvQuantity) =>
        /\ STOCK_LEVELS[EvProduct] = pre[EvProduct] - EvQuantity
        /\ STOCK_LEVELS[EvProduct] < 0

C12_Witness ==
    /\ Processed /\ EvTracked
    /\ pre[EvProduct] >= 0
    /\ pre[EvProduct] < EvQuantity
    /\ STOCK_LEVELS[EvProduct] < 0

\* The quantities sold of product id, summed over the ledger writes
RECURSIVE SoldOf(_, _)
SoldOf(ss, id) ==
    IF ss = <<>> THEN 0
    ELSE (IF ss[1][1] = id THEN ss[1][2] ELSE 0) + SoldOf(Tail(ss), id)

\* The ledger after the ledger writes ss applied in the order given by the
\* permutation f of their indices
RECURSIVE Replay(_, _, _, _)
Replay(levels, ss, f, i) ==
    IF i > Len(ss) THEN levels
    ELSE Replay(ApplySale(levels, ss[f[i]][1], ss[f[i]][2]), ss, f, i + 1)

\* C15: under serialized processing the stock of a tracked product after
\* any sequence of sales is its loaded stock minus the sum of the
\* quantities, and every reordering of the sequence ends at the same stock.
C15_SumAndOrderIndependence ==
    phase \in {"ready", "returned"} =>
        \A id \in DOMAIN STOCK_LEVELS :
            /\ STOCK_LEVELS[id] = LoadedLevels(kbFile)[id] - SoldOf(sales, id)
            /\ \A f \in Permutations(1..Len(sales)) :
                  Replay(LoadedLevels(kbFile), sales, f, 1)[id]
                      = STOCK_LEVELS[id]

C15_Witness ==
    /\ phase = "returned"
    /\ Len(sales) = 2
    /\ sales[1][1] = sales[2][1]
    /\ sales[1][2] # sales[2][2]
    /\ STOCK_LEVELS[sales[1][1]]
          = LoadedLevels(kbFile)[sales[1][1]] - sales[1][2] - sales[2][2]

\* C17 (module docstring): a low-stock warning only when fewer than 5
\* units remain, a high-value alert only when the total is above $120; a
\* sale that leaves exactly 5 units gives no low-stock alert.
C17_DocstringThresholds ==
    Processed =>
        /\ LowStockAlerts # {} => pre[EvProduct] - EvQuantity < 5
        /\ HighValueAlerts # {} => EvTotal > 12000

\* C18: with SKU005 at 10 and the default thresholds, the event
\* {SKU005, quantity 2, total 299.98} leaves SKU005 at 8, gives no
\* LOW_STOCK alert and exactly one HIGH_VALUE alert showing $299.98.
C18_EndToEnd ==
    (/\ Processed
     /\ "SKU005" \in DOMAIN pre
     /\ event.data.product_id = <<"SKU005">>
     /\ event.data.quantity = <<2>>
     /\ event.data.total = <<29998>>) =>
        (pre["SKU005"] = 10 =>
            /\ STOCK_LEVELS["SKU005"] = 8
            /\ LowStockAlerts = {}
            /\ Len(alerts) = 1
            /\ alerts[1].type = "HIGH_VALUE"
            /\ alerts[1].details[1] = <<"Amount", <<"$", 299, 98>> >>)

C18_Witness ==
    /\ Processed
    /\ nEvents = 1
    /\ "SKU005" \in DOMAIN pre
    /\ pre["SKU005"] = 10
    /\ event.data.product_id = <<"SKU005">>
    /\ event.data.quantity = <<2>>
    /\ event.data.total = <<29998>>
    /\ event.data.product_name = <<"Winter Jacket">>
    /\ STOCK_LEVELS["SKU005"] = 8
    /\ Len(alerts) = 1

PoolDone == phase = "pool" /\ \A t \in Threads : pool[t].pc = "done"

ThreadProduct(t) ==
    IF pool[t].data.product_id = <<>> THEN "UNKNOWN"
    ELSE pool[t].data.product_id[1]

ThreadQuantity(t) ==
    IF pool[t].data.quantity = <<>> THEN 1 ELSE pool[t].data.quantity[1]

RECURSIVE PoolSold(_, _)
PoolSold(id, n) ==
    IF n = 0 THEN 0
    ELSE (IF ThreadProduct(n) = id THEN ThreadQuantity(n) ELSE 0)
         + PoolSold(id, n - 1)

\* C13: concurrent sales lose no update: when the concurrent invocations
\* are over, every entry is its stock before them minus all the quantities
\* sold of it (S - Q1 - Q2 for two sales of one product).
C13_NoLostUpdate ==
    PoolDone =>
        \A id \in DOMAIN STOCK_LEVELS :
            STOCK_LEVELS[id] = pre[id] - PoolSold(id, MaxThreads)

\* C14: under concurrent processing every invocation evaluates the stock
\* rule on the value its own decrement produced (the value it read minus
\* its quantity), and reports that value.
C14_OwnPostDecrementValue ==
    phase = "pool" =>
        \A t \in Threads :
            (pool[t].pc \in {"value", "done"}
             /\ ThreadProduct(t) \in DOMAIN STOCK_LEVELS) =>
                /\ pool[t].current_stock
                      = pool[t].loaded - ThreadQuantity(t)
                /\ (\E i \in 1..Len(pool[t].alerts) :
                        pool[t].alerts[i].type = "LOW_STOCK")
                   <=> (pool[t].loaded - ThreadQuantity(t)
                            <= LOW_STOCK_THRESHOLD)

ReorderAnswered == reorder.pc = "returned" /\ reorder.out.kind = "analysis"

ReorderPointOfCall == reorder.db[reorder.product_id].reorder_point

\* C19: the recommended quantity is floor(reorder_point * m * 2) with m
\* 1.0 for "low", 1.5 for "normal", 2.0 for "high" and 1.5 for any other
\* urgency: 2, 3, 4 and 3 times the reorder point.
C19_RecommendedQty ==
    ReorderAnswered =>
        reorder.out.recommended_qty =
            ReorderPointOfCall *
                (CASE reorder.urgency = "low" -> 2
                   [] reorder.urgency = "normal" -> 3
                   [] reorder.urgency = "high" -> 4
                   [] OTHER -> 3)

C19_Witness ==
    /\ ReorderAnswered
    /\ ReorderPointOfCall = 10
    /\ reorder.urgency = "high"
    /\ reorder.out.recommended_qty = 40

\* C20: the status depends on current_stock and reorder_point only:
\* urgent when current_stock <= reorder_point, warning when reorder_point <
\* current_stock <= 1.5 * reorder_point, adequate otherwise.
C20_StatusClassification ==
    ReorderAnswered =>
        LET cs == reorder.current_stock
            rp == ReorderPointOfCall
        IN /\ reorder.out.status \in
                 {"URGENT: Below reorder point!",
                  "WARNING: Approaching reorder point",
                  "Stock levels adequate"}
           /\ reorder.out.status = "URGENT: Below reorder point!"
                 <=> cs <= rp
           /\ reorder.out.status = "WARNING: Approaching reorder point"
                 <=> (rp < cs /\ 2 * cs <= 3 * rp)
           /\ reorder.out.status = "Stock levels adequate"
                 <=> 2 * cs > 3 * rp /\ cs > rp

C20_Witness ==
    /\ ReorderAnswered
    /\ ReorderPointOfCall = 10
    /\ reorder.current_stock = 12
    /\ reorder.urgency = "high"
    /\ reorder.out.status = "WARNING: Approaching reorder point"

\* C21: every recommendation for a known product (reorder_point an integer
\* >= 0, any urgency) has a strictly positive recommended_qty.
C21_PositiveQty ==
    (ReorderAnswered /\ ReorderPointOfCall >= 0) =>
        reorder.out.recommended_qty > 0

\* C22: a product id that is not in the catalog gets the not-found answer
\* naming the id: nothing is raised and no quantity, status or cost is
\* part of the answer.
C22_NotFound ==
    (reorder.pc = "returned" /\ reorder.product_id \notin DOMAIN reorder.db)
        => /\ reorder.out.kind = "not_found"
           /\ reorder.out.product_id = reorder.product_id
           /\ DOMAIN reorder.out = {"kind", "product_id"}

C22_Witness ==
    /\ reorder.pc = "returned"
    /\ reorder.product_id = "SKU999"
    /\ reorder.db = StaticProductDb
    /\ reorder.urgency = "high"
    /\ reorder.out.kind = "not_found"

\* C23: with the catalog file present but unparseable, initialization
\* aborts: no sale event is ever processed (the ledger in use would not be
\* the catalog's).
C23_UnparseableAborts ==
    kbFile.state = "unparseable" =>
        /\ phase \notin {"triggered", "returned"}
        /\ ~Processed

\* C27: a sale on tracked product P changes only P's entry; every other
\* entry keeps its stock, and the ids of the ledger are, after any number
\* of invocations, the ids load_stock_levels left.
C27_FrameOfSale ==
    /\ Processed =>
          /\ DOMAIN STOCK_LEVELS = DOMAIN pre
          /\ \A k \in DOMAIN pre :
                k # EvProduct => STOCK_LEVELS[k] = pre[k]
    /\ phase \in {"ready", "triggered", "returned"} =>
          DOMAIN STOCK_LEVELS = DOMAIN LoadedLevels(kbFile)

C27_Witness ==
    /\ Processed /\ EvTracked
    /\ nEvents = 2
    /\ Len(sales) = 2
    /\ Cardinality(DOMAIN pre) = 5
    /\ STOCK_LEVELS[EvProduct] = pre[EvProduct] - EvQuantity
    /\ \A k \in DOMAIN pre \ {EvProduct} : STOCK_LEVELS[k] = pre[k]

\* C28: no latch and no de-duplication of low-stock alerts.  With positive
\* quantities an invocation never raises a stock, and once a sale on P has
\* produced a LOW_STOCK alert every later sale on P produces one too.
C28_NotLatched ==
    (\A i \in 1..Len(sales) : sales[i][2] > 0) =>
        /\ (Processed /\ EvQuantity > 0) =>
              \A k \in DOMAIN pre : STOCK_LEVELS[k] <= pre[k]
        /\ \A i, j \in 1..Len(sales) :
              (i < j /\ sales[i][1] = sales[j][1] /\ sales[i][3])
                  => sales[j][3]
        /\ (Processed /\ EvTracked
            /\ \E i \in 1..(Len(sales) - 1) :
                  sales[i][1] = EvProduct /\ sales[i][3])
              => LowStockAlerts # {}

C28_Witness ==
    /\ Processed /\ EvTracked
    /\ Len(sales) = 2
    /\ sales[1][1] = EvProduct
    /\ sales[1][3]
    /\ sales[2][3]
    /\ LowStockAlerts # {}

Redelivered ==
    /\ phase = "returned"
    /\ redelivery.pc = "again"
    /\ event.kind = "json_object"

\* C29: no de-duplication on transaction_id.  When the same event is
\* delivered twice, the second delivery starts from the ledger the first
\* one left, the tracked product's stock ends at its stock before the
\* first delivery minus twice the quantity, and each delivery evaluates
\* both rules on its own stock and posts one message per alert.
C29_NoDeduplication ==
    Redelivered =>
        /\ pre = redelivery.levels
        /\ EvTracked =>
              /\ redelivery.levels[EvProduct]
                    = redelivery.pre[EvProduct] - EvQuantity
              /\ STOCK_LEVELS[EvProduct]
                    = redelivery.pre[EvProduct] - 2 * EvQuantity
        /\ CountOf(redelivery.alerts, "LOW_STOCK") =
              IF EvTracked /\ redelivery.pre[EvProduct] - EvQuantity
                                <= LOW_STOCK_THRESHOLD
              THEN 1 ELSE 0
        /\ CountOf(alerts, "LOW_STOCK") =
              IF EvTracked /\ redelivery.pre[EvProduct] - 2 * EvQuantity
                                <= LOW_STOCK_THRESHOLD
              THEN 1 ELSE 0
        /\ CountOf(redelivery.alerts, "HIGH_VALUE") =
              IF EvTotal > HIGH_VALUE_THRESHOLD THEN 1 ELSE 0
        /\ CountOf(alerts, "HIGH_VALUE") =
              IF EvTotal > HIGH_VALUE_THRESHOLD THEN 1 ELSE 0
        /\ CredsSet =>
              /\ Len(redelivery.calls) = Len(redelivery.alerts)
              /\ Len(calls) = Len(alerts)
        /\ log[Len(log)] = <<"Processed", event.data.transaction_id>>

C29_Witness ==
    /\ Redelivered /\ EvTracked /\ CredsSet
    /\ event.data.transaction_id = <<"TEST-001">>
    /\ event.data.quantity = <<2>>
    /\ redelivery.pre[EvProduct] = 10
    /\ STOCK_LEVELS[EvProduct] = 6
    /\ Len(redelivery.calls) = 1
    /\ Len(calls) = 1

\* A run of the simulator that got no stop signal and in which no
\* statement raised
PublisherUndisturbed ==
    /\ publisher.pc # "none"
    /\ ~publisher.stop
    /\ publisher.out # "raised"

PublisherCounted ==
    /\ publisher.pc # "none"
    /\ publisher.count # <<>>

\* C24, the safety part: with count = N no more than N events are ever
\* generated or handed to the publish function, and a run left to itself
\* has generated and handed over exactly N when it ends; with count unset
\* a run left to itself does not end.
C24_CountSafety ==
    /\ PublisherCounted =>
          /\ publisher.generated <= publisher.count[1]
          /\ publisher.handed <= publisher.count[1]
          /\ (PublisherUndisturbed /\ publisher.pc = "done") =>
                /\ publisher.generated = publisher.count[1]
                /\ publisher.handed = publisher.count[1]
                /\ publisher.events_sent = publisher.count[1]
                /\ publisher.out = "returned"
    /\ (PublisherUndisturbed /\ publisher.count = <<>>) =>
          publisher.pc # "done"

C25_Interruptible ==
    /\ [](publisher.pc # "none" /\ publisher.stop =>
            /\ publisher.pc = "done"
            /\ publisher.out = "returned"
            /\ publisher.log[Len(publisher.log)]
                  = <<"Publisher stopped", publisher.events_sent>>)
    /\ [][(publisher.pc # "none" /\ publisher.stop) =>
            /\ publisher'.generated = publisher.generated
            /\ publisher'.handed = publisher.handed
            /\ publisher'.published = publisher.published]_vars

C25_Witness ==
    /\ publisher.pc = "done"
    /\ publisher.stop
    /\ publisher.count = <<>>
    /\ publisher.generated = 2
    /\ publisher.handed = 1
    /\ publisher.events_sent = 1
    /\ publisher.out = "returned"

\* The key under which a frame row is filed: its sku, or its id when the
\* sku is missing or empty
RowKey(row) ==
    IF row.sku # <<>> /\ row.sku # <<"">> THEN row.sku[1]
    ELSE IF row.id # <<>> THEN row.id[1]
    ELSE ""

\* What the table must hold for frame row row: every field the row gives,
\* and the column default, not an older value, for a field it does not give
StoredAs(r, row) ==
    /\ r.sku = RowKey(row)
    /\ r.name = (IF row.name = <<>> THEN "Unknown" ELSE row.name[1])
    /\ r.category =
          (IF row.category = <<>> THEN "Miscellaneous" ELSE row.category[1])
    /\ r.stock = (IF row.stock = <<>> THEN 0 ELSE row.stock[1])
    /\ r.base_price =
          (IF row.base_price # <<>> /\ row.base_price # <<0>>
           THEN row.base_price[1]
           ELSE IF row.price # <<>> THEN row.price[1] ELSE 0)
    /\ r.supplier_id =
          (IF row.supplier_id # <<>> /\ row.supplier_id # <<"">>
           THEN row.supplier_id[1]
           ELSE IF row.supplier # <<>> THEN row.supplier[1] ELSE "Unknown")
    /\ r.description =
          (IF row.description = <<>> THEN "" ELSE row.description[1])
    /\ r.reorder_point =
          (IF row.reorder_point = <<>> THEN 10 ELSE row.reorder_point[1])
    /\ r.lead_time_days =
          (IF row.lead_time_days = <<>> THEN 7 ELSE row.lead_time_days[1])

\* C26: import is an upsert keyed by product id.  After any sequence of
\* batch_insert_products calls the table has at most one row per id, the
\* row of an id holds the fields of the most recent import of that id, and
\* importing the frame of the previous call again leaves the table as it
\* was.
C26_UpsertById ==
    catalogDb.pc = "open" =>
        /\ \A r1, r2 \in catalogDb.table : r1.sku = r2.sku => r1 = r2
        /\ {r.sku : r \in catalogDb.table} = DOMAIN catalogDb.latest
        /\ \A r \in catalogDb.table :
              /\ RowKey(catalogDb.latest[r.sku]) = r.sku
              /\ StoredAs(r, catalogDb.latest[r.sku])
        /\ (catalogDb.imports >= 2 /\ catalogDb.df = catalogDb.previous) =>
              catalogDb.table = catalogDb.before

C26_Witness ==
    /\ catalogDb.pc = "open"
    /\ catalogDb.imports = 2
    /\ catalogDb.out = "returned"
    /\ Len(catalogDb.df) = 2
    /\ catalogDb.df[1].sku = <<"SKU001">>
    /\ catalogDb.df[2].sku = <<"SKU001">>
    /\ catalogDb.df[2].name = <<"Red Tee">>
    /\ catalogDb.previous[1].id = <<"SKU001">>
    /\ \E r \in catalogDb.table :
          /\ r.sku = "SKU001"
          /\ r.name = "Red Tee"
          /\ r.supplier_id = "Unknown"
          /\ r.reorder_point = 10
    /\ \E r \in catalogDb.before :
          /\ r.sku = "SKU001"
          /\ r.supplier_id = "SUP01"
          /\ r.reorder_point = 4

LiveListeners ==
    {l \in DOMAIN bot.listener :
        bot.listener[l].pc \notin {"unborn", "exited"}}

\* C30: start_telegram_bot stops the old listener before it starts a new
\* one: once a restart has returned, at most one listener thread is still
\* polling, and no inbound message is answered by two listeners.
C30_SingleListener ==
    phase = "bot" =>
        /\ (bot.starter = "idle" /\ bot.starts >= 2) =>
              Cardinality(LiveListeners) <= 1
        /\ \A u \in DOMAIN bot.answered :
              Cardinality(bot.answered[u]) <= 1

====
